---- MODULE Spec2Model ----
(***************************************************************************)
(* ObjectSlots: a signal/slot dispatcher.                                  *)
(*                                                                         *)
(* The model follows include/ObjectSlots/ObjectSlots.hpp (bind, unbind,    *)
(* emit and the three Slot classes) and src/ObjectSlots.cpp (the registry  *)
(* impl, getSlot, slotStore, slotRemove, acquireLock, releaseLock).        *)
(* The two build flags OBJECTSLOTS_THREAD_SAFE and OBJECTSLOTS_THREADED    *)
(* are the variables threadSafe and threaded, fixed by Init.               *)
(***************************************************************************)
EXTENDS Integers, Sequences, FiniteSets, TLC

\* ------------------------------------------------------------------ bounds

\* Number of Slot objects that can be live on the heap at one time.
MaxSlots == 2
\* Shared locks an emitter may have outstanding before further emits are
\* no longer explored.
MaxReaders == 2
\* bind / unbind calls the slots of one emit (or one worker) make on the
\* emitter before further ones are no longer explored.
MaxNested == 1
\* bind/emit/unbind cycles each thread performs in scenario S6.
Cycles == 2

\* ------------------------------------------------------------- identities

\* nullptr
Nil == 0
\* Addresses of heap-allocated Slot objects (operator new in bind).
SlotPtrs == 1 .. MaxSlots
\* Caller threads; MainThread is the only caller of a build without
\* OBJECTSLOTS_THREAD_SAFE (single-threaded contract).
Threads == {1, 2}
MainThread == CHOOSE t \in Threads : \A u \in Threads : t <= u
\* Signal identities: the pointer-to-member bit patterns of
\* Test::signal_hello and Test::signal_other_signal.
SignalIds == {"signal_hello", "signal_other_signal"}
NoSignal == "none"
\* Addresses of receiver objects, free functions, member functions and
\* closure objects.  All are disjoint from the slot addresses.
Owners == {101}
Functions == {201}
Methods == {301}
Lambdas == {401}

\* The detached worker that iteration n (1-based) of thread t's emit loop
\* starts, when OBJECTSLOTS_THREADED is defined.
Worker(t, n) == 10 * t + n
Workers == {Worker(t, n) : t \in Threads, n \in SlotPtrs}
Spawner(w) == w \div 10
Procs == Threads \cup Workers

VARIABLES
    threadSafe,   \* OBJECTSLOTS_THREAD_SAFE is defined
    threaded,     \* OBJECTSLOTS_THREADED is defined
    Signals,      \* impl::Signals : signal -> vector of slot addresses
    slots,        \* the heap: slot address -> the Slot object stored there
    readers,      \* impl::mutex : number of shared owners
    writer,       \* impl::mutex : held exclusively
    pc,           \* where each thread / worker is
    ret,          \* where a bind / unbind in progress returns to
    arg,          \* arguments of the slotStore / slotRemove in progress
    frame,        \* locals of emit (signal, i, slot, lock) / of a worker (slot)
    hist,         \* per thread: record of the emit it is in
    last,         \* per process: record of the slotStore / slotRemove it is leaving
    script        \* per thread: steps of scenario S6 already made

vars == <<threadSafe, threaded, Signals, slots, readers, writer, pc, ret, arg,
          frame, hist, last, script>>

\* ------------------------------------------------------------ Slot objects

\* A freed heap cell.
NoSlot == [live |-> FALSE, object |-> Nil, callback |-> Nil]

\* SlotFunction(callback): object() is nullptr.
SlotFunction(callback) == [live |-> TRUE, object |-> Nil, callback |-> callback]
\* SlotMethod(object, callback).
SlotMethod(object, callback) == [live |-> TRUE, object |-> object, callback |-> callback]
\* SlotLambda(f, &f) constructed at address this: object() is this.
SlotLambda(this, cb) == [live |-> TRUE, object |-> this, callback |-> cb]

\* What a caller can hand to bind: the overload and the identities.
BindInputs ==
    {[kind |-> "function", object |-> Nil, callback |-> f] : f \in Functions}
    \cup {[kind |-> "method", object |-> o, callback |-> m] : o \in Owners, m \in Methods}
    \cup {[kind |-> "lambda", object |-> Nil, callback |-> l] : l \in Lambdas}

\* What a caller can hand to slotRemove through the unbind overloads:
\* unbind(function), unbind(&closure), unbind(object, method), unbind(object)
\* and unbind((void*)nullptr).
UnbindInputs ==
    {[object |-> Nil, callback |-> c] : c \in Functions \cup Lambdas \cup Methods \cup {Nil}}
    \cup {[object |-> o, callback |-> c] : o \in Owners, c \in Methods \cup {Nil}}

\* operator new: an address that holds no live object.
FreePtrs == {p \in SlotPtrs : ~slots[p].live}
NewPtr == CHOOSE p \in FreePtrs : \A q \in FreePtrs : p <= q

\* The object bind constructs at address p.
NewSlot(in, p) ==
    CASE in.kind = "function" -> SlotFunction(in.callback)
      [] in.kind = "method" -> SlotMethod(in.object, in.callback)
      [] OTHER -> SlotLambda(p, in.callback)

\* ---------------------------------------------------------------- registry

\* impl::find(signal) followed by the size of the vector found.
SlotsOf(reg, signal) == IF signal \in DOMAIN reg THEN reg[signal] ELSE <<>>

\* impl::operator[] : creates an empty entry when the key is absent.
SignalsIndex(reg, signal) ==
    IF signal \in DOMAIN reg THEN reg ELSE reg @@ (signal :> <<>>)

\* impl::find written with operator[], which inserts an absent key.
findOrInsert(reg, signal) == SignalsIndex(reg, signal)

\* impl::find(signal): the map after the lookup.  Signals.find inserts
\* nothing.
find(reg, signal) == reg

\* getSlot looking into the first vector of the map, whatever the signal.
getSlotAnySignal(reg, signal, index) ==
    IF DOMAIN reg # {} /\ index < Len(reg[CHOOSE s \in DOMAIN reg : TRUE])
    THEN reg[CHOOSE s \in DOMAIN reg : TRUE][index + 1]
    ELSE Nil

\* getSlot with the bound test off by one: the last slot is never returned.
getSlotShort(reg, signal, index) ==
    IF signal \in DOMAIN reg /\ index + 1 < Len(reg[signal])
    THEN reg[signal][index + 1]
    ELSE Nil

\* getSlot(signal, index)
getSlot(reg, signal, index) ==
    IF signal \in DOMAIN reg /\ index < Len(reg[signal])
    THEN reg[signal][index + 1]
    ELSE Nil

\* slotStore that keeps a signal's vector free of slots with the callback of
\* one already stored.
slotStoreUnique(reg, signal, slot) ==
    IF \E k \in 1 .. Len(SlotsOf(reg, signal)) :
           slots[reg[signal][k]].callback = slots[slot].callback
    THEN reg
    ELSE [SignalsIndex(reg, signal) EXCEPT ![signal] = Append(@, slot)]

\* slotStore inserting at the front of the vector instead of the back.
slotStoreFront(reg, signal, slot) ==
    [SignalsIndex(reg, signal) EXCEPT ![signal] = <<slot>> \o @]

\* slotStore body: (*impl_)[signal].emplace_back(slot)
slotStore(reg, signal, slot) ==
    [SignalsIndex(reg, signal) EXCEPT ![signal] = Append(@, slot)]

\* slotRemove: mode = (object!=nullptr)<<1 | (slot!=nullptr)
RemoveMode(object, slot) ==
    (IF object # Nil THEN 2 ELSE 0) + (IF slot # Nil THEN 1 ELSE 0)

\* The switch with case 2 comparing the callback instead of the object.
removeWrongField(heap, p, object, slot) ==
    CASE RemoveMode(object, slot) = 1 -> heap[p].callback = slot
      [] RemoveMode(object, slot) = 2 -> heap[p].callback = object
      [] RemoveMode(object, slot) = 3 -> heap[p].callback = slot /\ heap[p].object = object
      [] OTHER -> FALSE

\* slotRemove: the switch deciding whether *i is removed.
remove(heap, p, object, slot) ==
    CASE RemoveMode(object, slot) = 1 -> heap[p].callback = slot
      [] RemoveMode(object, slot) = 2 -> heap[p].object = object
      [] RemoveMode(object, slot) = 3 -> heap[p].callback = slot /\ heap[p].object = object
      [] OTHER -> FALSE

\* The inner loop leaving the vector after its first erase.
RECURSIVE EraseLoop(_, _, _, _)
EraseFirstOnly(heap, list, object, slot) ==
    IF list = <<>> THEN <<>>
    ELSE IF remove(heap, Head(list), object, slot)
         THEN Tail(list)
         ELSE <<Head(list)>> \o EraseLoop(heap, Tail(list), object, slot)

\* slotRemove: the inner loop over one vector; what is left of it.
EraseLoop(heap, list, object, slot) ==
    IF list = <<>> THEN <<>>
    ELSE IF remove(heap, Head(list), object, slot)
         THEN EraseLoop(heap, Tail(list), object, slot)
         ELSE <<Head(list)>> \o EraseLoop(heap, Tail(list), object, slot)

\* slotRemove: the slots the inner loop erases from one vector, each of
\* which it deletes.
Deleted(heap, list, object, slot) ==
    {list[k] : k \in 1 .. Len(list)}
        \ {EraseLoop(heap, list, object, slot)[k] :
               k \in 1 .. Len(EraseLoop(heap, list, object, slot))}

\* slotRemove without the erase of an emptied entry.
EraseEmptySkipped(reg) == reg

\* slotRemove: if (it->second.empty()) it = impl_->erase(it)
EraseEmpty(reg) ==
    IF \A x \in DOMAIN reg : reg[x] = <<>>
    THEN <<>>
    ELSE [s \in {x \in DOMAIN reg : reg[x] # <<>>} |-> reg[s]]

\* slotRemove: the registry after the outer loop.
slotRemove(reg, heap, object, slot) ==
    EraseEmpty([s \in DOMAIN reg |-> EraseLoop(heap, reg[s], object, slot)])

\* slotRemove: the heap after every `delete SlotOrMethod`.
slotRemoveHeap(reg, heap, object, slot) ==
    LET gone == UNION {Deleted(heap, reg[s], object, slot) : s \in DOMAIN reg}
    IN  [p \in SlotPtrs |-> IF p \in gone THEN NoSlot ELSE heap[p]]

\* ~impl leaving the loop over a vector after its first delete.
implDtorFirstOnly(reg, heap) ==
    [p \in SlotPtrs |->
        IF \E s \in DOMAIN reg : reg[s] # <<>> /\ reg[s][1] = p THEN NoSlot ELSE heap[p]]

\* impl::~impl : the heap after `delete` of every slot of every vector.
implDtor(reg, heap) ==
    [p \in SlotPtrs |->
        IF \E s \in DOMAIN reg : \E k \in 1 .. Len(reg[s]) : reg[s][k] = p
        THEN NoSlot
        ELSE heap[p]]

\* -------------------------------------------------------------------- lock

\* WRITELOCK() on a mutex that lets an exclusive owner in beside shared
\* owners.
CanWriteLockBesideReaders == ~threadSafe \/ ~writer

\* WRITELOCK() as the empty macro of a build without
\* OBJECTSLOTS_THREAD_SAFE.
CanWriteLockEmpty == TRUE

\* std::unique_lock<std::shared_mutex> can be taken (WRITELOCK); the macro
\* is empty without OBJECTSLOTS_THREAD_SAFE.
CanWriteLock == ~threadSafe \/ (~writer /\ readers = 0)
\* std::shared_lock<std::shared_mutex> can be taken (acquireLock).
CanReadLock == ~writer

\* A shared_lock constructed without locking the mutex.
SharedLockDeferred(n) == n

\* The shared owners of the mutex after the std::shared_lock constructor.
SharedLock(n) == n + 1

\* ------------------------------------------------------------ initial state

NoArg == [signal |-> NoSignal, object |-> Nil, callback |-> Nil, slot |-> Nil]
NoFrame == [signal |-> NoSignal, i |-> 0, slot |-> Nil, lock |-> FALSE, calls |-> 0]
NoHist == [out |-> "none", reg |-> <<>>, log |-> <<>>, dirty |-> FALSE, gone |-> {}]
NoLast == [op |-> "none", n |-> 0]

\* The caller threads of a build.  Without OBJECTSLOTS_THREAD_SAFE the
\* emitter has one caller (single-threaded contract).  With
\* OBJECTSLOTS_THREADED the workers are the concurrent threads, and one
\* caller is explored.
Callers == IF threadSafe /\ ~threaded THEN Threads ELSE {MainThread}

\* What each process passes to bind, unbind and emit.  The main thread
\* (and a slot it calls) uses every identity; a second caller thread, and a
\* slot run by a worker, works with one free function on one signal.
SignalsOf(p) == IF p = MainThread THEN SignalIds ELSE {"signal_hello"}
BindInputsOf(p) ==
    IF p = MainThread THEN BindInputs ELSE {in \in BindInputs : in.kind = "function"}
UnbindInputsOf(p) ==
    IF p = MainThread
    THEN UnbindInputs
    ELSE {in \in UnbindInputs : in.object = Nil /\ in.callback \in Functions}

InitState ==
    /\ Signals = <<>>
    /\ slots = [p \in SlotPtrs |-> NoSlot]
    /\ readers = 0
    /\ writer = FALSE
    /\ pc = [p \in Procs |-> IF p \in Threads THEN "idle" ELSE "unborn"]
    /\ ret = [p \in Procs |-> "idle"]
    /\ arg = [p \in Procs |-> NoArg]
    /\ frame = [p \in Procs |-> NoFrame]
    /\ hist = [t \in Threads |-> NoHist]
    /\ last = [p \in Procs |-> NoLast]
    /\ script = [t \in Threads |-> 0]

Init ==
    /\ threadSafe \in BOOLEAN
    /\ threaded \in BOOLEAN
    /\ InitState

\* ------------------------------------------------------------------ history

\* A bind or unbind changed the registry: every emit that has taken its
\* snapshot is marked.
MarkDirty(h) ==
    [t \in Threads |-> IF h[t].out # "none" THEN [h[t] EXCEPT !.dirty = TRUE] ELSE h[t]]

\* ~ObjectSlots has been entered: the emitter's lifetime is over.
Destructing ==
    \E t \in Threads : pc[t] \in {"~ObjectSlots", "delete impl_", "unlock", "destroyed", "fault"}

\* Who may start a bind or unbind on the emitter while it lives: a caller
\* thread between calls, or the code of a slot that is being invoked (on
\* the emitting thread, or on a worker when the registry is locked).
MayCall(p) ==
    /\ ~Destructing
    /\ \/ pc[p] = "idle" /\ p \in Callers
       \/ pc[p] = "invoke" /\ (p \in Threads \/ threadSafe) /\ frame[p].calls < MaxNested

\* A slotRemove deleted the slots d: every emit that has taken its snapshot
\* records them.
MarkGone(h, d) ==
    [t \in Threads |-> IF h[t].out # "none" THEN [h[t] EXCEPT !.gone = @ \cup d] ELSE h[t]]

\* -------------------------------------------------------------------- bind

\* bind(signal, ...): new Slot...(...), then slotStore(signal, slot) up to
\* its WRITELOCK().
BindCallOp(p, signal, in) ==
    /\ MayCall(p)
    /\ FreePtrs # {}
    /\ slots' = [slots EXCEPT ![NewPtr] = NewSlot(in, NewPtr)]
    /\ arg' = [arg EXCEPT ![p] = [NoArg EXCEPT !.signal = signal, !.slot = NewPtr]]
    /\ ret' = [ret EXCEPT ![p] = pc[p]]
    /\ pc' = [pc EXCEPT ![p] = "slotStore"]
    /\ frame' = [frame EXCEPT ![p].calls = IF pc[p] = "invoke" THEN @ + 1 ELSE @]
    /\ UNCHANGED <<threadSafe, threaded, Signals, readers, writer, hist, last>>

BindCall(p, signal, in) == BindCallOp(p, signal, in) /\ UNCHANGED script

\* slotStore: WRITELOCK() returns.
StoreLock(p) ==
    /\ pc[p] = "slotStore"
    /\ CanWriteLock
    /\ writer' = threadSafe
    /\ pc' = [pc EXCEPT ![p] = "emplace_back"]
    /\ UNCHANGED <<threadSafe, threaded, Signals, slots, readers, ret, arg, frame,
                   hist, last, script>>

\* slotStore: (*impl_)[signal].emplace_back(slot)
StoreBody(p) ==
    /\ pc[p] = "emplace_back"
    /\ Signals' = slotStore(Signals, arg[p].signal, arg[p].slot)
    /\ pc' = [pc EXCEPT ![p] = "stored"]
    /\ hist' = MarkDirty(hist)
    /\ last' = [last EXCEPT ![p] = [NoLast EXCEPT !.op = "store"]]
    /\ UNCHANGED <<threadSafe, threaded, slots, readers, writer, ret, arg, frame, script>>

\* slotStore and bind return; the unique_lock goes out of scope.
StoreReturn(p) ==
    /\ pc[p] = "stored"
    /\ writer' = FALSE
    /\ pc' = [pc EXCEPT ![p] = ret[p]]
    /\ ret' = [ret EXCEPT ![p] = "idle"]
    /\ arg' = [arg EXCEPT ![p] = NoArg]
    /\ last' = [last EXCEPT ![p] = NoLast]
    /\ UNCHANGED <<threadSafe, threaded, Signals, slots, readers, frame, hist, script>>

\* ------------------------------------------------------------------ unbind

\* unbind(...): slotRemove(object, slot) up to its WRITELOCK().
UnbindCallOp(p, in) ==
    /\ MayCall(p)
    /\ arg' = [arg EXCEPT ![p] = [NoArg EXCEPT !.object = in.object,
                                                !.callback = in.callback]]
    /\ ret' = [ret EXCEPT ![p] = pc[p]]
    /\ pc' = [pc EXCEPT ![p] = "slotRemove"]
    /\ frame' = [frame EXCEPT ![p].calls = IF pc[p] = "invoke" THEN @ + 1 ELSE @]
    /\ UNCHANGED <<threadSafe, threaded, Signals, slots, readers, writer, hist, last>>

UnbindCall(p, in) == UnbindCallOp(p, in) /\ UNCHANGED script

\* slotRemove: WRITELOCK() returns.
RemoveLock(p) ==
    /\ pc[p] = "slotRemove"
    /\ CanWriteLock
    /\ writer' = threadSafe
    /\ pc' = [pc EXCEPT ![p] = "erase"]
    /\ UNCHANGED <<threadSafe, threaded, Signals, slots, readers, ret, arg, frame,
                   hist, last, script>>

\* slotRemove: the two loops.
RemoveBody(p) ==
    /\ pc[p] = "erase"
    /\ Signals' = slotRemove(Signals, slots, arg[p].object, arg[p].callback)
    /\ slots' = slotRemoveHeap(Signals, slots, arg[p].object, arg[p].callback)
    /\ pc' = [pc EXCEPT ![p] = "removed"]
    /\ hist' = MarkGone(MarkDirty(hist), FreePtrs' \ FreePtrs)
    /\ last' = [last EXCEPT ![p] =
                   [op |-> "remove", n |-> Cardinality(FreePtrs') - Cardinality(FreePtrs)]]
    /\ UNCHANGED <<threadSafe, threaded, readers, writer, ret, arg, frame, script>>

\* slotRemove and unbind return; the unique_lock goes out of scope.
RemoveReturn(p) ==
    /\ pc[p] = "removed"
    /\ writer' = FALSE
    /\ pc' = [pc EXCEPT ![p] = ret[p]]
    /\ ret' = [ret EXCEPT ![p] = "idle"]
    /\ arg' = [arg EXCEPT ![p] = NoArg]
    /\ last' = [last EXCEPT ![p] = NoLast]
    /\ UNCHANGED <<threadSafe, threaded, Signals, slots, readers, frame, hist, script>>

\* -------------------------------------------------------------------- emit

\* The record of an emit, taken when its loop is about to start.
StartHist(t) == [hist EXCEPT ![t] = [NoHist EXCEPT !.out = "running", !.reg = Signals]]

\* No worker started by an earlier emit of thread t is still around.
WorkersDone(t) == \A n \in SlotPtrs : pc[Worker(t, n)] = "unborn"

\* emit(callback, args...) is entered; with OBJECTSLOTS_THREAD_SAFE it is
\* at acquireLock(), otherwise at the first getSlot.
EmitCallOp(t, signal) ==
    /\ pc[t] = "idle"
    /\ t \in Callers
    /\ ~Destructing
    /\ threadSafe => readers < MaxReaders
    /\ threaded => WorkersDone(t)
    /\ frame' = [frame EXCEPT ![t] = [NoFrame EXCEPT !.signal = signal]]
    /\ pc' = [pc EXCEPT ![t] = IF threadSafe THEN "acquireLock" ELSE "getSlot"]
    /\ hist' = IF threadSafe THEN hist ELSE StartHist(t)
    /\ UNCHANGED <<threadSafe, threaded, Signals, slots, readers, writer, ret, arg, last>>

EmitCall(t, signal) == EmitCallOp(t, signal) /\ UNCHANGED script

\* acquireLock(): new std::shared_lock<std::shared_mutex>(impl_->mutex)
AcquireLock(t) ==
    /\ pc[t] = "acquireLock"
    /\ CanReadLock
    /\ readers' = SharedLock(readers)
    /\ frame' = [frame EXCEPT ![t].lock = TRUE]
    /\ pc' = [pc EXCEPT ![t] = "getSlot"]
    /\ hist' = StartHist(t)
    /\ UNCHANGED <<threadSafe, threaded, Signals, slots, writer, ret, arg, last, script>>

\* What emit does with the slot getSlot returned: it calls the slot itself,
\* or starts a detached std::thread under OBJECTSLOTS_THREADED.
Dispatch == IF threaded THEN "thread" ELSE "call"

\* std::thread::join in the place of detach: the loop goes on when the
\* thread it started has finished.
join(t) == WorkersDone(t)

\* t.detach() returns without waiting for the thread it lets go.
detach(t) == TRUE

\* The loop condition `void* slot = getSlot(ptr, i++)` is false: the loop
\* ends.  Without OBJECTSLOTS_THREAD_SAFE emit returns here.
GetSlotNull(t) ==
    /\ pc[t] = "getSlot"
    /\ threaded => detach(t)
    /\ getSlot(Signals, frame[t].signal, frame[t].i) = Nil
    /\ frame' = [frame EXCEPT ![t].i = @ + 1, ![t].slot = Nil]
    /\ pc' = [pc EXCEPT ![t] = IF threadSafe THEN "releaseLock" ELSE "done"]
    /\ hist' = IF threadSafe THEN hist ELSE [hist EXCEPT ![t].out = "returned"]
    /\ Signals' = find(Signals, frame[t].signal)
    /\ UNCHANGED <<threadSafe, threaded, slots, readers, writer, ret, arg,
                   last, script>>

\* The loop condition is true and the body calls the slot on this thread.
GetSlotCall(t) ==
    /\ pc[t] = "getSlot"
    /\ Dispatch = "call"
    /\ getSlot(Signals, frame[t].signal, frame[t].i) # Nil
    /\ frame' = [frame EXCEPT ![t].i = @ + 1,
                              ![t].slot = getSlot(Signals, frame[t].signal, frame[t].i)]
    /\ pc' = [pc EXCEPT ![t] = "invoke"]
    /\ hist' = [hist EXCEPT ![t].log =
                   Append(@, getSlot(Signals, frame[t].signal, frame[t].i))]
    /\ Signals' = find(Signals, frame[t].signal)
    /\ UNCHANGED <<threadSafe, threaded, slots, readers, writer, ret, arg,
                   last, script>>

\* The loop condition is true and the body starts std::thread t([slot,
\* args...]{...}) and detaches it.
GetSlotThread(t) ==
    /\ pc[t] = "getSlot"
    /\ threaded => detach(t)
    /\ Dispatch = "thread"
    /\ getSlot(Signals, frame[t].signal, frame[t].i) # Nil
    /\ frame[t].i < MaxSlots
    /\ pc[Worker(t, frame[t].i + 1)] = "unborn"
    /\ frame' = [frame EXCEPT
                   ![t].i = @ + 1,
                   ![t].slot = getSlot(Signals, frame[t].signal, frame[t].i),
                   ![Worker(t, frame[t].i + 1)] =
                       [NoFrame EXCEPT !.slot = getSlot(Signals, frame[t].signal, frame[t].i)]]
    /\ pc' = [pc EXCEPT ![Worker(t, frame[t].i + 1)] = "spawned"]
    /\ hist' = [hist EXCEPT ![t].log =
                   Append(@, getSlot(Signals, frame[t].signal, frame[t].i))]
    /\ Signals' = find(Signals, frame[t].signal)
    /\ UNCHANGED <<threadSafe, threaded, slots, readers, writer, ret, arg,
                   last, script>>

\* The worker's lambda begins: (*slot)(args...).  When the slot has been
\* deleted since the thread was started, the call goes through a dangling
\* pointer: it runs what the address holds, or the thread faults.
WorkerStart(w) ==
    /\ w \in Workers
    /\ pc[w] = "spawned"
    /\ \E out \in IF slots[frame[w].slot].live THEN {"invoke"} ELSE {"invoke", "fault"} :
           pc' = [pc EXCEPT ![w] = out]
    /\ UNCHANGED <<threadSafe, threaded, Signals, slots, readers, writer, ret, arg,
                   frame, hist, last, script>>

\* The slot's callable returns: to the emit loop, or the worker ends.
SlotReturn(p) ==
    /\ pc[p] = "invoke"
    /\ pc' = [pc EXCEPT ![p] = IF p \in Threads THEN "getSlot" ELSE "unborn"]
    /\ frame' = IF p \in Threads THEN frame ELSE [frame EXCEPT ![p] = NoFrame]
    /\ UNCHANGED <<threadSafe, threaded, Signals, slots, readers, writer, ret, arg,
                   hist, last, script>>

\* emit with a handler around the call that goes on with the next slot.
OnThrowContinue == "continue"

\* Where an exception thrown by a slot called from emit's loop goes: emit
\* has no handler, so it leaves emit.
OnThrow == "unwind"

\* The slot's callable throws on the emitting thread.  The exception leaves
\* emit at the call; releaseLock(lock) is not reached.
SlotRaise(t) ==
    /\ t \in Threads
    /\ pc[t] = "invoke"
    /\ pc' = [pc EXCEPT ![t] = IF OnThrow = "unwind" THEN "done" ELSE "getSlot"]
    /\ hist' = [hist EXCEPT ![t].out = "raised"]
    /\ UNCHANGED <<threadSafe, threaded, Signals, slots, readers, writer, ret, arg,
                   frame, last, script>>

\* releaseLock(lock): delete the shared_lock; emit returns.
ReleaseLock(t) ==
    /\ pc[t] = "releaseLock"
    /\ readers' = readers - 1
    /\ frame' = [frame EXCEPT ![t].lock = FALSE]
    /\ pc' = [pc EXCEPT ![t] = "done"]
    /\ hist' = [hist EXCEPT ![t].out = "returned"]
    /\ UNCHANGED <<threadSafe, threaded, Signals, slots, writer, ret, arg, last, script>>

\* The caller of emit goes on, after a return or after catching what a
\* slot threw; emit's locals are gone.
EmitDone(t) ==
    /\ pc[t] = "done"
    /\ pc' = [pc EXCEPT ![t] = "idle"]
    /\ frame' = [frame EXCEPT ![t] = NoFrame]
    /\ hist' = [hist EXCEPT ![t] = NoHist]
    /\ UNCHANGED <<threadSafe, threaded, Signals, slots, readers, writer, ret, arg,
                   last, script>>

\* -------------------------------------------------------------- destructor

\* No thread is inside bind, unbind or emit, and no worker inside a bind or
\* unbind it called: the emitter may be destroyed (a call on an emitter
\* under destruction is outside the program's contract).
Quiescent ==
    /\ \A q \in Threads : pc[q] = "idle"
    /\ \A w \in Workers : pc[w] \in {"unborn", "spawned", "invoke", "fault"}

\* The publisher is deleted: ~ObjectSlots() is entered, at its WRITELOCK().
DtorCall(t) ==
    /\ t = MainThread
    /\ Quiescent
    /\ pc' = [pc EXCEPT ![t] = "~ObjectSlots"]
    /\ UNCHANGED <<threadSafe, threaded, Signals, slots, readers, writer, ret, arg,
                   frame, hist, last, script>>

\* ~ObjectSlots: WRITELOCK() returns.
DtorLock(t) ==
    /\ pc[t] = "~ObjectSlots"
    /\ CanWriteLock
    /\ writer' = threadSafe
    /\ pc' = [pc EXCEPT ![t] = "delete impl_"]
    /\ UNCHANGED <<threadSafe, threaded, Signals, slots, readers, ret, arg, frame,
                   hist, last, script>>

\* ~ObjectSlots: delete impl_.  ~impl deletes the slots, then the members
\* Signals and mutex are destroyed and the storage of *impl_ is freed.
\* With OBJECTSLOTS_THREAD_SAFE the unique_lock declared by WRITELOCK() is
\* still in scope, and its destructor comes next.
DtorDelete(t) ==
    /\ pc[t] = "delete impl_"
    /\ slots' = implDtor(Signals, slots)
    /\ Signals' = <<>>
    /\ pc' = [pc EXCEPT ![t] = IF threadSafe THEN "unlock" ELSE "destroyed"]
    /\ last' = [last EXCEPT ![t] =
                   [op |-> "delete", n |-> Cardinality(FreePtrs') - Cardinality(FreePtrs)]]
    /\ UNCHANGED <<threadSafe, threaded, readers, writer, ret, arg, frame, hist, script>>

\* ~ObjectSlots: the closing brace runs ~unique_lock, which calls unlock()
\* on impl_->mutex.  The mutex lies in storage that delete impl_ has freed:
\* the call returns, or the thread faults.
DtorUnlock(t) ==
    /\ pc[t] = "unlock"
    /\ writer' = FALSE
    /\ \E out \in {"destroyed", "fault"} : pc' = [pc EXCEPT ![t] = out]
    /\ UNCHANGED <<threadSafe, threaded, Signals, slots, readers, ret, arg, frame,
                   hist, last, script>>

\* ----------------------------------------------------------- specification

Next ==
    \/ \E p \in Procs : \E s \in SignalsOf(p), in \in BindInputsOf(p) : BindCall(p, s, in)
    \/ \E p \in Procs : StoreLock(p)
    \/ \E p \in Procs : StoreBody(p)
    \/ \E p \in Procs : StoreReturn(p)
    \/ \E p \in Procs : \E in \in UnbindInputsOf(p) : UnbindCall(p, in)
    \/ \E p \in Procs : RemoveLock(p)
    \/ \E p \in Procs : RemoveBody(p)
    \/ \E p \in Procs : RemoveReturn(p)
    \/ \E t \in Threads : \E s \in SignalsOf(t) : EmitCall(t, s)
    \/ \E t \in Threads : AcquireLock(t)
    \/ \E t \in Threads : GetSlotNull(t)
    \/ \E t \in Threads : GetSlotCall(t)
    \/ \E t \in Threads : GetSlotThread(t)
    \/ \E w \in Workers : WorkerStart(w)
    \/ \E p \in Procs : SlotReturn(p)
    \/ \E t \in Threads : SlotRaise(t)
    \/ \E t \in Threads : ReleaseLock(t)
    \/ \E t \in Threads : EmitDone(t)
    \/ \E t \in Threads : DtorCall(t)
    \/ \E t \in Threads : DtorLock(t)
    \/ \E t \in Threads : DtorDelete(t)
    \/ \E t \in Threads : DtorUnlock(t)

Spec == Init /\ [][Next]_vars

\* ------------------------------------------------ parallel dispatch, fair

\* The builds with OBJECTSLOTS_THREADED.
InitThreaded ==
    /\ threadSafe \in BOOLEAN
    /\ threaded = TRUE
    /\ InitState

\* The steps of a build with OBJECTSLOTS_THREADED: emit starts threads and
\* calls no slot itself.
NextThreaded ==
    \/ \E p \in Procs : \E s \in SignalsOf(p), in \in BindInputsOf(p) : BindCall(p, s, in)
    \/ \E p \in Procs : StoreLock(p)
    \/ \E p \in Procs : StoreBody(p)
    \/ \E p \in Procs : StoreReturn(p)
    \/ \E p \in Procs : \E in \in UnbindInputsOf(p) : UnbindCall(p, in)
    \/ \E p \in Procs : RemoveLock(p)
    \/ \E p \in Procs : RemoveBody(p)
    \/ \E p \in Procs : RemoveReturn(p)
    \/ \E t \in Threads : \E s \in SignalsOf(t) : EmitCall(t, s)
    \/ \E t \in Threads : AcquireLock(t)
    \/ \E t \in Threads : GetSlotNull(t)
    \/ \E t \in Threads : GetSlotThread(t)
    \/ \E w \in Workers : WorkerStart(w)
    \/ \E w \in Workers : SlotReturn(w)
    \/ \E t \in Threads : ReleaseLock(t)
    \/ \E t \in Threads : EmitDone(t)
    \/ \E t \in Threads : DtorCall(t)
    \/ \E t \in Threads : DtorLock(t)
    \/ \E t \in Threads : DtorDelete(t)
    \/ \E t \in Threads : DtorUnlock(t)

\* The code of emit itself on thread t: straight-line code and lock calls.
EmitSteps(t) ==
    AcquireLock(t) \/ GetSlotNull(t) \/ GetSlotThread(t) \/ ReleaseLock(t) \/ EmitDone(t)

\* The code of slotStore and slotRemove on process p.
WriteSteps(p) ==
    \/ StoreLock(p) \/ StoreBody(p) \/ StoreReturn(p)
    \/ RemoveLock(p) \/ RemoveBody(p) \/ RemoveReturn(p)

\* A running thread executes the library's code: emit, slotStore and
\* slotRemove take their next step when they can.  Nothing is assumed of
\* the code of a slot: a worker need not start, and a slot need not return.
SpecThreaded ==
    /\ InitThreaded
    /\ [][NextThreaded]_vars
    /\ \A t \in Threads : WF_vars(EmitSteps(t))
    /\ \A p \in Procs : WF_vars(WriteSteps(p))

\* ------------------------------------------------------------- scenario S6

\* Scenario S6: a thread-safe build with sequential dispatch; every thread
\* repeats bind / emit / unbind on one signal with a callback identity of
\* its own: the main thread a free function, the other thread a method of
\* a receiver object.
S6Signal == "signal_hello"
S6Bind(t) ==
    IF t = MainThread
    THEN CHOOSE in \in BindInputs : in.kind = "function"
    ELSE CHOOSE in \in BindInputs : in.kind = "method"
S6Unbind(t) == [object |-> S6Bind(t).object, callback |-> S6Bind(t).callback]

InitS6 ==
    /\ threadSafe = TRUE
    /\ threaded = FALSE
    /\ InitState

\* The next call of thread t's loop body, when the previous one has
\* returned.
S6Step(t) ==
    /\ pc[t] = "idle"
    /\ script[t] < 3 * Cycles
    /\ script' = [script EXCEPT ![t] = @ + 1]
    /\ CASE script[t] % 3 = 0 -> BindCallOp(t, S6Signal, S6Bind(t))
         [] script[t] % 3 = 1 -> EmitCallOp(t, S6Signal)
         [] OTHER -> UnbindCallOp(t, S6Unbind(t))

NextS6 ==
    \/ \E t \in Threads : S6Step(t)
    \/ \E t \in Threads : StoreLock(t)
    \/ \E t \in Threads : StoreBody(t)
    \/ \E t \in Threads : StoreReturn(t)
    \/ \E t \in Threads : RemoveLock(t)
    \/ \E t \in Threads : RemoveBody(t)
    \/ \E t \in Threads : RemoveReturn(t)
    \/ \E t \in Threads : AcquireLock(t)
    \/ \E t \in Threads : GetSlotNull(t)
    \/ \E t \in Threads : GetSlotCall(t)
    \/ \E t \in Threads : SlotReturn(t)
    \/ \E t \in Threads : ReleaseLock(t)
    \/ \E t \in Threads : EmitDone(t)

SpecS6 == InitS6 /\ [][NextS6]_vars

\* ------------------------------------------------------------------ claims

\* Number of occurrences of x in the sequence q.
Count(q, x) == Cardinality({k \in 1 .. Len(q) : q[k] = x})

\* The slots bound to the emitted signal when thread t's emit took its
\* first look at the registry.
Snap(t) == SlotsOf(hist[t].reg, frame[t].signal)

\* An emit of thread t that has returned with no bind or unbind having
\* changed the registry since it began.
CleanReturned(t) == hist[t].out = "returned" /\ ~hist[t].dirty

\* C1: an emit during which no bind or unbind ran has, when it returns,
\* made exactly one invocation (sequential dispatch) or started exactly one
\* worker (parallel dispatch) for every slot that was bound to the signal:
\* k dispatches for k bindings, and none for any other slot.
C1_FireCount ==
    \A t \in Threads :
        CleanReturned(t) =>
            /\ Len(hist[t].log) = Len(Snap(t))
            /\ \A p \in SlotPtrs : Count(hist[t].log, p) = Count(Snap(t), p)
            /\ \A p \in SlotPtrs : Count(Snap(t), p) <= 1

\* A parallel emit has returned after starting one worker for each of two
\* bound slots.
C1_Witness ==
    \E t \in Threads :
        /\ threaded
        /\ CleanReturned(t)
        /\ Len(Snap(t)) = 2
        /\ \A n \in 1 .. 2 : pc[Worker(t, n)] # "unborn"

\* The step of process p that is slotStore's emplace_back.
StoreStep(p) == pc[p] = "emplace_back" /\ pc'[p] = "stored"
\* The step of process p that is slotRemove's pair of loops.
RemoveStep(p) == pc[p] = "erase" /\ pc'[p] = "removed"

\* The processes that are running a slot of thread t's emit.
Invoking(t) ==
    {p \in {t} \cup {Worker(t, n) : n \in SlotPtrs} :
        pc[p] = "invoke" \/ (ret[p] = "invoke" /\ pc[p] # "idle")}

\* C2 (state part): with sequential dispatch the slots invoked so far by an
\* emit are, in order, the first slots of the signal's sequence, at most
\* one invocation of the emit is running, and none is running when the emit
\* fetches the next slot.
C2_InOrder ==
    \A t \in Threads :
        (~threaded /\ hist[t].out # "none") =>
            /\ ~hist[t].dirty =>
                   /\ Len(hist[t].log) <= Len(Snap(t))
                   /\ hist[t].log = SubSeq(Snap(t), 1, Len(hist[t].log))
            /\ Cardinality(Invoking(t)) <= 1
            /\ pc[t] = "getSlot" => Invoking(t) = {}

\* C2 (step part): a bind puts its slot behind every slot bound to the
\* signal before, so the sequence of a signal is in bind order.
C2_BindAppends ==
    \A p \in Procs :
        StoreStep(p) =>
            /\ SlotsOf(Signals', arg[p].signal) =
                   Append(SlotsOf(Signals, arg[p].signal), arg[p].slot)
            /\ \A s \in SignalIds \ {arg[p].signal} :
                   SlotsOf(Signals', s) = SlotsOf(Signals, s)

\* C2: in sequential mode the slots of one emit are invoked in the order in
\* which they were bound to the signal, one after the other.
C2_BindOrder == [](C2_InOrder) /\ [][C2_BindAppends]_vars

\* A sequential emit has invoked a free function, bound first, and is now
\* running a method or closure slot bound to the same signal after it.
C2_Witness ==
    \E t \in Threads :
        /\ ~threaded
        /\ pc[t] = "invoke"
        /\ ~hist[t].dirty
        /\ Len(hist[t].log) = 2
        /\ slots[hist[t].log[1]].object = Nil
        /\ slots[hist[t].log[2]].object # Nil

\* The matcher of unbind(owner, callback) as the specification tabulates it.
Matches(sl, owner, callback) ==
    \/ owner = Nil /\ callback # Nil /\ sl.callback = callback
    \/ owner # Nil /\ callback = Nil /\ sl.object = owner
    \/ owner # Nil /\ callback # Nil /\ sl.callback = callback /\ sl.object = owner

\* The sequence q without the slots that match (owner, callback).
Unmatched(q, owner, callback) ==
    SelectSeq(q, LAMBDA x : ~Matches(slots[x], owner, callback))

\* C3 (step): slotRemove(owner, callback) leaves, under every signal, the
\* previous sequence without its matching slots, the others in their
\* previous order; after it no slot under any signal matches.
C3_RemoveStep ==
    \A p \in Procs :
        RemoveStep(p) =>
            /\ \A s \in SignalIds :
                   SlotsOf(Signals', s) =
                       Unmatched(SlotsOf(Signals, s), arg[p].object, arg[p].callback)
            /\ \A s \in DOMAIN Signals' : \A k \in 1 .. Len(Signals'[s]) :
                   ~Matches(slots'[Signals'[s][k]], arg[p].object, arg[p].callback)

C4_NoEmptyEntry == \A s \in DOMAIN Signals : Signals[s] # <<>>

\* An unbind has removed the only slots of a signal while another signal
\* keeps its entry.
C4_Witness ==
    \E p \in Procs :
        /\ pc[p] = "removed"
        /\ last[p].n = 1
        /\ DOMAIN Signals = {"signal_other_signal"}

\* No slot in the registry reg matches (owner, callback).
NoMatch(reg, heap, owner, callback) ==
    \A s \in DOMAIN reg : \A k \in 1 .. Len(reg[s]) :
        ~Matches(heap[reg[s][k]], owner, callback)

\* C5 (step): an unbind(x) that finds no matching slot returns with the
\* registry and every slot as they were; and after any unbind(x) a second
\* unbind(x) would leave the registry and the slots as the first left them.
C5_RemoveStep ==
    \A p \in Procs :
        RemoveStep(p) =>
            /\ NoMatch(Signals, slots, arg[p].object, arg[p].callback) =>
                   Signals' = Signals /\ slots' = slots
            /\ slotRemove(Signals', slots', arg[p].object, arg[p].callback) = Signals'
            /\ slotRemoveHeap(Signals', slots', arg[p].object, arg[p].callback) = slots'

\* C5: unbind is idempotent and a no-op when nothing matches.
C5_UnbindIdempotent == [][C5_RemoveStep]_vars

\* An unbind has returned from the loops having found nothing to remove in
\* a registry that holds slots.
C5_Witness ==
    \E p \in Procs :
        /\ pc[p] = "removed"
        /\ arg[p].callback # Nil
        /\ last[p].n = 0
        /\ Signals # <<>>

\* The owner a binder named for the slot at address p: none for a free
\* function and for a closure (whose object() is the slot itself).
OwnerGiven(heap, p) == IF heap[p].object = p THEN Nil ELSE heap[p].object

\* The slots of sequence q bound with the (callback, owner) of the slot at x.
SameTuple(heap, q, x) ==
    {k \in 1 .. Len(q) : /\ heap[q[k]].callback = heap[x].callback
                         /\ OwnerGiven(heap, q[k]) = OwnerGiven(heap, x)}

\* C6 (store step): a bind adds one slot to those already bound to the
\* signal with the same callback and owner, however many there are.
C6_StoreStep ==
    \A p \in Procs :
        StoreStep(p) =>
            Cardinality(SameTuple(slots', SlotsOf(Signals', arg[p].signal), arg[p].slot))
                = Cardinality(SameTuple(slots, SlotsOf(Signals, arg[p].signal), arg[p].slot)) + 1

\* C6 (remove step): one unbind deletes every slot that matches its
\* identity, under every signal.
C6_RemoveStep ==
    \A p \in Procs :
        RemoveStep(p) =>
            /\ NoMatch(Signals', slots', arg[p].object, arg[p].callback)
            /\ \A s \in DOMAIN Signals : \A k \in 1 .. Len(Signals[s]) :
                   Matches(slots[Signals[s][k]], arg[p].object, arg[p].callback)
                       => ~slots'[Signals[s][k]].live

\* C6 (emit): an emit that has returned undisturbed has dispatched, for
\* every slot bound to the signal, as many slots of that (callback, owner)
\* as were bound.
C6_EmitAll ==
    \A t \in Threads :
        CleanReturned(t) =>
            \A k \in 1 .. Len(Snap(t)) :
                Cardinality(SameTuple(slots, hist[t].log, Snap(t)[k]))
                    = Cardinality(SameTuple(slots, Snap(t), Snap(t)[k]))

\* C6: n binds of one (signal, callback, owner) give n slots, n invocations
\* per emit, and one unbind removes all n.
C6_Duplicates == [](C6_EmitAll) /\ [][C6_StoreStep /\ C6_RemoveStep]_vars

\* An emit has returned after invoking two slots bound with the same
\* callback and owner.
C6_Witness ==
    \E t \in Threads :
        /\ CleanReturned(t)
        /\ Len(hist[t].log) = 2
        /\ hist[t].log[1] # hist[t].log[2]
        /\ Cardinality(SameTuple(slots, hist[t].log, hist[t].log[1])) = 2

\* C7: with sequential dispatch, once a slot of an emit has raised the emit
\* is over and control is back with its caller; what the emit invoked is
\* the slots up to the one that raised, each once and none after it; and,
\* no bind or unbind having run meanwhile, the registry is as the emit
\* found it.
C7_RaiseStops ==
    \A t \in Threads :
        hist[t].out = "raised" =>
            /\ ~threaded
            /\ pc[t] = "done"
            /\ Len(hist[t].log) = frame[t].i
            /\ ~hist[t].dirty =>
                   /\ 1 <= Len(hist[t].log) /\ Len(hist[t].log) <= Len(Snap(t))
                   /\ hist[t].log = SubSeq(Snap(t), 1, Len(hist[t].log))
                   /\ \A p \in SlotPtrs : Count(hist[t].log, p) <= 1
                   /\ Signals = hist[t].reg

\* The first of two slots bound to the signal has raised: the second has
\* not been invoked.
C7_Witness ==
    \E t \in Threads :
        /\ hist[t].out = "raised"
        /\ ~hist[t].dirty
        /\ Len(hist[t].log) = 1
        /\ Len(Snap(t)) = 2

\* The thread whose emit runs the slot that process p executes.
EmitterOf(p) == IF p \in Threads THEN p ELSE Spawner(p)

\* Process p runs a slot of an emit that is still in progress and, from
\* it, has called bind or unbind, which is at its WRITELOCK().
WaitsInSlot(p) ==
    /\ threadSafe
    /\ ret[p] = "invoke"
    /\ pc[p] \in {"slotStore", "slotRemove"}
    /\ hist[EmitterOf(p)].out = "running"

\* C8 as stated, for every dispatch mode: a bind or unbind called from a
\* slot of an emit in progress stays at its WRITELOCK() and the emit stays
\* in progress.
C8_AnyDispatch == [][\A p \in Procs : WaitsInSlot(p) => WaitsInSlot(p)']_vars

\* C8, amended: in a thread-safe build with sequential dispatch, a bind or
\* unbind called from a slot of an emit in progress never gets past its
\* WRITELOCK(), and that emit never completes.
C8_SequentialDeadlock ==
    [][\A t \in Threads : (~threaded /\ WaitsInSlot(t)) => WaitsInSlot(t)']_vars

\* A slot called by a thread-safe, sequential emit has called bind.
C8_Witness ==
    \E t \in Threads :
        /\ ~threaded
        /\ WaitsInSlot(t)
        /\ pc[t] = "slotStore"
        /\ frame[t].lock

\* Process q is between slotStore's or slotRemove's WRITELOCK() and its
\* return.
InWrite(q) == pc[q] \in {"emplace_back", "stored", "erase", "removed"}

\* Thread t's emit owns the mutex in shared mode and nobody owns it
\* exclusively or is inside slotStore / slotRemove.
HoldsShared(t) ==
    /\ frame[t].lock
    /\ readers >= 1
    /\ ~writer
    /\ \A q \in Procs : ~InWrite(q)

\* Thread t's emit is at a slot lookup or has a slot invocation running.
LooksUpOrInvokes(t) == pc[t] = "getSlot" \/ Invoking(t) # {}

\* C10 as stated, for every dispatch mode of a thread-safe build.
C10_AnyDispatch ==
    \A t \in Threads : (threadSafe /\ LooksUpOrInvokes(t)) => HoldsShared(t)

\* C10, amended: in a thread-safe build with sequential dispatch, from an
\* emit's first slot lookup until its last slot invocation has returned the
\* emit owns the mutex in shared mode, and no bind or unbind is past its
\* WRITELOCK().
C10_SequentialShared ==
    \A t \in Threads :
        (threadSafe /\ ~threaded /\ LooksUpOrInvokes(t)) => HoldsShared(t)

\* A slot of thread t's thread-safe, sequential emit is running while
\* another thread's bind waits at its WRITELOCK().
C10_Witness ==
    \E t \in Threads : \E q \in Threads \ {t} :
        /\ threadSafe /\ ~threaded
        /\ pc[t] = "invoke"
        /\ pc[q] = "slotStore"

\* Every thread has finished its S6 loop.
S6Done == \A t \in Threads : script[t] = 3 * Cycles /\ pc[t] = "idle"

InEmit(t) == pc[t] \in {"acquireLock", "getSlot", "releaseLock", "done"}

\* C11 (state part): when a parallel emit returns it has started one
\* worker for each slot bound to the signal, in order, and no longer owns
\* the shared lock, whatever its workers are doing.
C11_Returned ==
    \A t \in Threads :
        (threaded /\ hist[t].out = "returned") =>
            /\ hist[t].log = Snap(t)
            /\ ~frame[t].lock
            /\ readers = 0

\* C11: in parallel mode an emit that has been entered returns to its
\* caller, with one worker started per bound slot and the shared lock
\* released, also when no worker ever starts or finishes its slot.
C11_EmitReturns ==
    /\ [](C11_Returned)
    /\ \A t \in Threads : (threaded /\ InEmit(t)) ~> (pc[t] = "idle")

\* A thread-safe parallel emit has returned and released its lock while
\* neither of its two workers has started its slot.
C11_Witness ==
    \E t \in Threads :
        /\ threaded /\ threadSafe
        /\ pc[t] = "done"
        /\ hist[t].out = "returned"
        /\ readers = 0
        /\ \A n \in 1 .. 2 : pc[Worker(t, n)] = "spawned"

\* The slot addresses the registry reg refers to.
Bound(reg) == UNION {{reg[s][k] : k \in 1 .. Len(reg[s])} : s \in DOMAIN reg}

\* The slots a bind has created and not yet handed to the registry.
InBind == {arg[q].slot : q \in {r \in Procs : pc[r] \in {"slotStore", "emplace_back"}}}

\* delete impl_ has run on thread t.
Deleted_impl(t) == pc[t] \in {"unlock", "destroyed", "fault"}

\* C12 (state part): the registry refers only to slots that exist, to each
\* of them once; a slot that exists is in the registry or on its way into
\* it; once the emitter is destroyed no slot exists.
C12_Owned ==
    /\ \A p \in Bound(Signals) : slots[p].live
    /\ \A p \in SlotPtrs :
           Cardinality({<<s, k>> \in SignalIds \X (1 .. MaxSlots) :
                           k <= Len(SlotsOf(Signals, s)) /\ Signals[s][k] = p}) <= 1
    /\ \A p \in SlotPtrs : slots[p].live => p \in Bound(Signals) \cup InBind
    /\ \A t \in Threads : Deleted_impl(t) => FreePtrs = SlotPtrs /\ Signals = <<>>

\* C12 (step part): a slot is destroyed only by the slotRemove that takes
\* it out of the registry, which it matches, or by delete impl_ while the
\* registry refers to it; either destroys a slot that exists.
C12_DestroyStep ==
    \A p \in SlotPtrs :
        (slots[p].live /\ ~slots'[p].live) =>
            /\ p \in Bound(Signals) /\ p \notin Bound(Signals')
            /\ \/ \E q \in Procs :
                      /\ RemoveStep(q)
                      /\ Matches(slots[p], arg[q].object, arg[q].callback)
               \/ \E t \in Threads : pc[t] = "delete impl_" /\ Deleted_impl(t)'

\* C12: every slot a bind creates is destroyed once, by the unbind that
\* removes it or by the destruction of the emitter.
C12_DestroyedOnce == [](C12_Owned) /\ [][C12_DestroyStep]_vars

\* The destructor has destroyed two slots that were still bound.
C12_Witness ==
    \E t \in Threads : pc[t] = "destroyed" /\ last[t].op = "delete" /\ last[t].n = 2

\* The elements of the sequence q.
Elems(q) == {q[k] : k \in 1 .. Len(q)}

\* The step in which thread t's emit dispatches a slot: calls it or starts
\* its worker.
DispatchStep(t) ==
    /\ pc[t] = "getSlot"
    /\ Len(hist'[t].log) = Len(hist[t].log) + 1

\* C13 (bind step): slotStore(A, x) leaves the sequence of every signal
\* other than A as it was.
C13_StoreStep ==
    \A p \in Procs :
        StoreStep(p) =>
            \A s \in SignalIds \ {arg[p].signal} :
                /\ SlotsOf(Signals', s) = SlotsOf(Signals, s)
                /\ arg[p].slot \notin Elems(SlotsOf(Signals', s))

\* C13 (dispatch step): the slot an emit of signal B dispatches is bound
\* under B, and under no other signal.
C13_DispatchStep ==
    \A t \in Threads :
        DispatchStep(t) =>
            /\ frame'[t].slot \in Elems(SlotsOf(Signals, frame[t].signal))
            /\ hist'[t].log = Append(hist[t].log, frame'[t].slot)
            /\ \A s \in SignalIds \ {frame[t].signal} :
                   frame'[t].slot \notin Elems(SlotsOf(Signals, s))

\* C13: signals are independent: a bind on A changes no other signal's
\* sequence, and an emit of B dispatches only slots bound under B.
C13_Independent == [][C13_StoreStep /\ C13_DispatchStep]_vars

\* An emit has returned after dispatching the one slot of its signal while
\* the other signal has a slot bound, which it did not dispatch.
C13_Witness ==
    \E t \in Threads :
        /\ CleanReturned(t)
        /\ Len(hist[t].log) = 1
        /\ DOMAIN Signals = SignalIds
        /\ \E s \in SignalIds \ {frame[t].signal} : Signals[s] # <<>>

\* A step of emit's own code on thread t.
EmitStep(t) == InEmit(t) /\ (pc'[t] # pc[t] \/ frame'[t] # frame[t])

\* C14 (state part): while no bind or unbind has changed the registry
\* since an emit began, the registry is as the emit found it; an emit of a
\* signal without bindings that has returned made one lookup, dispatched
\* nothing and left the signal without an entry.
C14_Unchanged ==
    \A t \in Threads :
        /\ (hist[t].out # "none" /\ ~hist[t].dirty) => Signals = hist[t].reg
        /\ (CleanReturned(t) /\ Snap(t) = <<>>) =>
               /\ hist[t].log = <<>>
               /\ frame[t].i = 1
               /\ frame[t].signal \notin DOMAIN Signals

\* C14 (step part): no step of emit's own code changes the registry or a
\* slot.
C14_EmitStep ==
    \A t \in Threads : EmitStep(t) => Signals' = Signals /\ slots' = slots

\* C14: emit itself leaves the registry unchanged, and is a no-op for a
\* signal without bindings.
C14_EmitFrame == [](C14_Unchanged) /\ [][C14_EmitStep]_vars

\* An emit of a signal without bindings has returned, while the other
\* signal has a slot bound.
C14_Witness ==
    \E t \in Threads :
        /\ CleanReturned(t)
        /\ Snap(t) = <<>>
        /\ pc[t] = "done"
        /\ Signals # <<>>

\* Worker w has been started for a slot and has not finished invoking it.
Pending(w) == pc[w] \notin {"unborn", "fault"}

\* C15: in parallel mode no slotRemove destroys the slot of a worker that
\* has not finished invoking it.
C15_WorkerSlotKept ==
    [][\A q \in Procs : \A w \in Workers :
           (threaded /\ RemoveStep(q) /\ Pending(w) /\ slots[frame[w].slot].live)
               => slots'[frame[w].slot].live]_vars

\* Thread t's emit, in a build with neither flag, has returned after a
\* slot it invoked unbound slots that the emit had already dispatched.
ReturnedAfterUnbind(t) ==
    /\ ~threadSafe /\ ~threaded
    /\ hist[t].out = "returned"
    /\ hist[t].gone # {}
    /\ hist[t].gone \subseteq Elems(hist[t].log)

\* C16: in non-thread-safe sequential mode, an emit during which a slot
\* unbinds itself or a slot already dispatched still invokes, exactly once,
\* every slot that was bound to the signal when it began and has not been
\* removed.
C16_SurvivorsInvoked ==
    \A t \in Threads :
        ReturnedAfterUnbind(t) =>
            \A p \in Elems(Snap(t)) \ hist[t].gone : Count(hist[t].log, p) = 1

\* C17: in thread-safe sequential mode an emit that a raising slot has
\* ended owns the shared lock no longer, and with no other call in
\* progress the exclusive lock of a bind or unbind can be taken.
C17_RaiseReleases ==
    \A t \in Threads :
        (threadSafe /\ ~threaded /\ hist[t].out = "raised") =>
            /\ ~frame[t].lock
            /\ (\A u \in Threads \ {t} : pc[u] = "idle") => CanWriteLock

\* C18: in non-thread-safe sequential mode no step destroys the slot whose
\* invocation by an emit is still running.
C18_RunningSlotKept ==
    [][\A t \in Threads :
           (~threadSafe /\ ~threaded /\ Invoking(t) # {} /\ slots[frame[t].slot].live)
               => slots'[frame[t].slot].live]_vars

\* Thread t's emit, in a build with neither flag, is over.
SequentialOver(t) == ~threadSafe /\ ~threaded /\ pc[t] = "done"

\* The slots bound to the emitted signal that were bound while thread t's
\* emit was in progress.
BoundDuring(t) ==
    Elems(SlotsOf(Signals, frame[t].signal)) \ (Elems(Snap(t)) \ hist[t].gone)

MutexFreed == \E t \in Threads : Deleted_impl(t)

\* C20: in thread-safe mode, once the registry state that holds the mutex
\* is freed, the destructor's exclusive lock has been released and no
\* unlock of the mutex is still to come.
C20_UnlockBeforeFree ==
    (threadSafe /\ MutexFreed) => (~writer /\ \A t \in Threads : pc[t] # "unlock")

====
